---- MODULE Spec2Model ----
(***************************************************************************)
(* A model of the page-backed allocator of include/Malloc.hpp and          *)
(* src/Malloc.cpp: MMapObject (one mmap'ed region with a header),          *)
(* BigAlloc, Arena, ArenaStore and the myMalloc / myFree facade.           *)
(*                                                                         *)
(* Memory is modelled as the program sees it: a set of mapped pages and    *)
(* the 8-byte words stored in them.  Headers live in that memory, at the   *)
(* offsets the class layouts give them (LP64), so that a header read       *)
(* through any pointer reads whatever is stored at that address.  A load   *)
(* or store through an address whose page is not mapped raises SIGSEGV:    *)
(* that holds of the null page and of MAP_FAILED (the address -1), which   *)
(* the OS never maps.  A raised signal ends the process, the default       *)
(* action of SIGSEGV and SIGTRAP.                                          *)
(* size_t values are held as their two's-complement residue: a negative n  *)
(* stands for 2^64 + n (so -1 is SIZE_MAX).                                *)
(***************************************************************************)
EXTENDS Integers, FiniteSets, Sequences, TLC

\* ---------------------------------------------------------------- bounds
\* Pages 1..MaxPages are the address space the OS hands out mappings from.
MaxPages == 2
\* Number of myMalloc calls and caller stores in a run.
MaxCalls == 6
\* Largest request of the classification runs, and the number of calls that
\* precede the classified one.
MaxBytes == 1100
MaxPrefix == 1
\* Number of myMalloc calls and caller stores of the run that fills an
\* 8-byte arena, and the number of 16-byte requests that precede the fill.
MaxFill == 512
MaxLead == 1

\* ------------------------------------------------------ program constants
pageSize == 4096
\* Largest request served from an arena.
MaxArenaBytes == 1024
\* Number of entries of ArenaStore::m_arenas.
NumArenas == 9
\* Field offsets of MMapObject and Arena, and the sizes of the overlays.
OffMmapSize == 0
OffArenaSize == 8
OffItemCount == 16
OffSizeRemain == 24
OffNext == 32
SizeofBigAlloc == 16
SizeofArena == 40
nullptr == 0
\* mmap's failure result, (void*)-1.
MAP_FAILED == -1

\* Request sizes of the allocator runs, and the words a caller stores into
\* an allocation: the values, and the offsets from the returned pointer (the
\* words ArenaStore::free reads through the pointer, and the last word of a
\* 1024-byte slot).
ReqSizes == {8, 1024, 2000}
UserVals == {1, 2}
UserOffsets == {8, 16, 24, 1016}
\* Sizes and item sizes of the direct MMapObject calls, and the offsets into
\* a page of the pointers handed to MMapObject::dealloc.
RegionSizes == {0, 2000, 5000}
RegionItemSizes == {0, 8}
RegionOffsets == {0, 16}
\* Item sizes of the direct Arena::create calls.
ArenaItemSizes == {1024, 3000}

VARIABLES
    mapped,              \* pages currently mapped
    mem,                 \* word address -> value, the non-zero words of mapped pages
    s_outstandingPages,  \* MMapObject::s_outstandingPages
    m_arenas,            \* ArenaStore::m_arenas, index -> Arena* (nullptr = 0)
    pc,                  \* "running", or the signal that ended the process
    regions,             \* mappings made by mmap and not yet unmapped: [base, npages]
    live,                \* allocations returned by myMalloc and not yet passed to myFree
    issued,              \* arena base -> number of slots it has issued
    last,                \* the last call and what it returned
    nCalls               \* myMalloc calls and caller stores so far

vars == <<mapped, mem, s_outstandingPages, m_arenas, pc, regions, live, issued,
          last, nCalls>>

\* ---------------------------------------------------------------- memory
\* The machine state a call works on.
Machine == [mapped |-> mapped, mem |-> mem, cnt |-> s_outstandingPages,
            regions |-> regions, sig |-> "none"]

PageOf(a) == a \div pageSize

IsMapped(m, a) == a >= 0 /\ PageOf(a) \in m.mapped

Load(m, a) == IF a \in DOMAIN m.mem THEN m.mem[a] ELSE 0

Store(m, a, v) ==
    [m EXCEPT !.mem =
        IF v = 0
        THEN [x \in (DOMAIN m.mem) \ {a} |-> m.mem[x]]
        ELSE [x \in (DOMAIN m.mem) \cup {a} |-> IF x = a THEN v ELSE m.mem[x]]]

Raise(m, s) == [m EXCEPT !.sig = s]

\* The element of a one-element set: Only({e(x) : x \in {v}}) is e(v), the
\* value v computed once and named x.
Only(S) == CHOOSE x \in S : TRUE

\* Unsigned comparison of two size_t values.
ULess(a, b) == IF (a >= 0) = (b >= 0) THEN a < b ELSE b < 0

\* Pages of the byte range [addr, addr + len).
PagesOfRange(addr, len) == PageOf(addr) .. PageOf(addr + len - 1)

NPages(size) == (size + pageSize - 1) \div pageSize

\* The placements the OS may choose for a new mapping of size bytes:
\* any run of free pages, or 0 when it refuses (ENOMEM; EINVAL for size 0).
OsChoices(m, size) ==
    {0} \cup {b \in 1..MaxPages :
                /\ size > 0
                /\ b + NPages(size) - 1 <= MaxPages
                /\ \A p \in b..(b + NPages(size) - 1) : p \notin m.mapped}

\* mmap(nullptr, size, ..., MAP_ANONYMOUS | MAP_PRIVATE, 0, 0): fresh pages
\* read as zero.
mmap(m, size, os) ==
    IF os = 0
    THEN [m |-> m, ret |-> MAP_FAILED]
    ELSE [m |-> [m EXCEPT !.mapped = @ \cup (os..(os + NPages(size) - 1)),
                          !.regions = @ \cup {[base |-> os * pageSize,
                                               npages |-> NPages(size)]}],
          ret |-> os * pageSize]

\* munmap(addr, len): EINVAL for an address that is not page aligned or a
\* length of 0; otherwise every page of the range is unmapped.
munmap(m, addr, len) ==
    IF addr % pageSize # 0 \/ len <= 0
    THEN [m |-> m, ret |-> -1]
    ELSE LET gone == PagesOfRange(addr, len) IN
         [m |-> [m EXCEPT
                   !.mapped = @ \ gone,
                   !.mem = [x \in {y \in DOMAIN m.mem : PageOf(y) \notin gone}
                              |-> m.mem[x]],
                   !.regions = {r \in @ :
                       \A p \in r.base \div pageSize ..
                                (r.base \div pageSize + r.npages - 1) :
                           p \notin gone}],
          ret |-> 0]

\* Whether the fields of the object at this, at the offsets offs, can be accessed.
ObjMapped(m, this, offs) == \A o \in offs : IsMapped(m, this + o)

\* --------------------------------------------------------------- MMapObject
\* MMapObject::alloc.  The counter is incremented before mmap is called.  The
\* test of the result dereferences it: MAP_FAILED is no mapped address.
MMapObject_alloc(m, size, arenaSize, os) ==
    Only({ IF ~IsMapped(r.m, r.ret)
           THEN [m |-> Raise(r.m, "SIGSEGV"), ret |-> nullptr]
           ELSE IF Load(r.m, r.ret) = -1 \/ Load(r.m, r.ret) % 8 # 0
           THEN [m |-> r.m, ret |-> nullptr]
           ELSE [m |-> Store(Store(r.m, r.ret + OffMmapSize, size),
                             r.ret + OffArenaSize, arenaSize),
                 ret |-> r.ret]
         : r \in {mmap([m EXCEPT !.cnt = @ + 1], size, os)} })

\* MMapObject::dealloc without the test of the old counter value.
MMapObject_deallocNoTrap(m, obj) ==
    Only({ IF ~IsMapped(m1, obj + OffMmapSize)
           THEN Raise(m1, "SIGSEGV")
           ELSE Only({ IF u.ret = -1 THEN Raise(u.m, "SIGTRAP") ELSE u.m
                     : u \in {munmap(m1, obj, Load(m1, obj + OffMmapSize))} })
         : m1 \in {[m EXCEPT !.cnt = @ - 1]} })

\* MMapObject::dealloc.  raise(SIGTRAP) ends the process (default action).
\* The pointer is used as the header as it is passed.
MMapObject_dealloc(m, obj) ==
    Only({ IF m.cnt = 0
           THEN Raise(m1, "SIGTRAP")
           ELSE IF ~IsMapped(m1, obj + OffMmapSize)
           THEN Raise(m1, "SIGSEGV")
           ELSE Only({ IF u.ret = -1 THEN Raise(u.m, "SIGTRAP") ELSE u.m
                     : u \in {munmap(m1, obj, Load(m1, obj + OffMmapSize))} })
         : m1 \in {[m EXCEPT !.cnt = @ - 1]} })

\* MMapObject::outstandingPages.
outstandingPages == s_outstandingPages

\* ----------------------------------------------------------------- BigAlloc
\* BigAlloc::alloc: the address of m_data[0], after the header.
BigAlloc_alloc(m, size, os) ==
    Only({ IF r.m.sig # "none"
           THEN r
           ELSE IF r.ret = nullptr \/ SizeofBigAlloc % 8 # 0
           THEN [m |-> r.m, ret |-> nullptr]
           ELSE [m |-> r.m, ret |-> r.ret + SizeofBigAlloc]
         : r \in {MMapObject_alloc(m, size, 0, os)} })

\* -------------------------------------------------------------------- Arena
\* Arena::create.
Arena_create(m, itemSize, os) ==
    Only({ IF r.m.sig # "none"
           THEN r
           ELSE IF r.ret = nullptr \/ SizeofArena % 8 # 0
           THEN [m |-> r.m, ret |-> nullptr]
           ELSE [m |-> Store(Store(Store(r.m, r.ret + OffNext, r.ret + SizeofArena),
                                   r.ret + OffItemCount, 0),
                             r.ret + OffSizeRemain, pageSize),
                 ret |-> r.ret]
         : r \in {MMapObject_alloc(m, pageSize, itemSize, os)} })

\* Arena::full: arenaSize() > size_remain.
Arena_full(m, this) ==
    ULess(Load(m, this + OffSizeRemain), Load(m, this + OffArenaSize))

\* Arena::alloc.
Arena_alloc(m, this) ==
    IF ~ObjMapped(m, this, {OffArenaSize, OffSizeRemain})
    THEN [m |-> Raise(m, "SIGSEGV"), ret |-> nullptr]
    ELSE IF Arena_full(m, this)
    THEN [m |-> m, ret |-> nullptr]
    ELSE IF ~ObjMapped(m, this, {OffItemCount, OffNext})
    THEN [m |-> Raise(m, "SIGSEGV"), ret |-> nullptr]
    ELSE LET arenaSize == Load(m, this + OffArenaSize)
             result == Load(m, this + OffNext) + arenaSize
         IN  [m |-> Store(Store(Store(m, this + OffSizeRemain,
                                      Load(m, this + OffSizeRemain) - arenaSize),
                                this + OffItemCount,
                                Load(m, this + OffItemCount) + 1),
                          this + OffNext, result),
              ret |-> result]

\* Arena::free decrementing item_count whatever its value.
Arena_freeUnguarded(m, this) ==
    IF ~ObjMapped(m, this, {OffItemCount})
    THEN [m |-> Raise(m, "SIGSEGV"), ret |-> FALSE]
    ELSE Only({ IF Load(m1, this + OffItemCount) # 0
                THEN [m |-> m1, ret |-> FALSE]
                ELSE IF ~ObjMapped(m1, this, {OffArenaSize, OffSizeRemain})
                THEN [m |-> Raise(m1, "SIGSEGV"), ret |-> FALSE]
                ELSE [m |-> m1, ret |-> Arena_full(m1, this)]
              : m1 \in {Store(m, this + OffItemCount,
                              Load(m, this + OffItemCount) - 1)} })

\* Arena::free.
Arena_free(m, this) ==
    IF ~ObjMapped(m, this, {OffItemCount})
    THEN [m |-> Raise(m, "SIGSEGV"), ret |-> FALSE]
    ELSE Only({ IF Load(m1, this + OffItemCount) # 0
                THEN [m |-> m1, ret |-> FALSE]
                ELSE IF ~ObjMapped(m1, this, {OffArenaSize, OffSizeRemain})
                THEN [m |-> Raise(m1, "SIGSEGV"), ret |-> FALSE]
                ELSE [m |-> m1, ret |-> Arena_full(m1, this)]
              : m1 \in {IF Load(m, this + OffItemCount) > 0
                        THEN Store(m, this + OffItemCount,
                                   Load(m, this + OffItemCount) - 1)
                        ELSE m} })

\* --------------------------------------------------------------- ArenaStore
\* The loop  while(bytes >>= 1) { i <<= 1; arena_index++; }
RECURSIVE ShiftLoop(_, _, _)
ShiftLoop(bytes, i, arena_index) ==
    IF bytes \div 2 # 0
    THEN ShiftLoop(bytes \div 2, i * 2, arena_index + 1)
    ELSE [i |-> i, arena_index |-> arena_index]

\* Classify with the index of the power of two below the request.
ClassifyIndexBelow(bytes) ==
    IF bytes <= 8
    THEN [bytes |-> 8, arena_index |-> 0]
    ELSE LET l == ShiftLoop(bytes, 1, 0)
             tmp == bytes
         IN  [bytes |-> IF l.i < tmp THEN l.i * 2 ELSE l.i,
              arena_index |-> l.arena_index - 3]

\* Classify with 16 bytes as the smallest class.
ClassifyMinSixteen(bytes) ==
    IF bytes <= 16
    THEN [bytes |-> 16, arena_index |-> 1]
    ELSE LET l == ShiftLoop(bytes, 1, 0)
             tmp == bytes
         IN  [bytes |-> IF l.i < tmp THEN l.i * 2 ELSE l.i,
              arena_index |-> (IF l.i < tmp THEN l.arena_index + 1
                                            ELSE l.arena_index) - 3]

\* The size class of a request of at most 1024 bytes: the item size and the
\* index into m_arenas, as ArenaStore::alloc computes them.
Classify(bytes) ==
    IF bytes <= 8
    THEN [bytes |-> 8, arena_index |-> 0]
    ELSE LET l == ShiftLoop(bytes, 1, 0)
             tmp == bytes
         IN  [bytes |-> IF l.i < tmp THEN l.i * 2 ELSE l.i,
              arena_index |-> (IF l.i < tmp THEN l.arena_index + 1
                                            ELSE l.arena_index) - 3]

\* ArenaStore::alloc.  big: the request took the BigAlloc path; arena: the
\* table entry the slot was asked of; created: Arena::create was called.
ArenaStore_alloc(m, tab, bytes, os) ==
    IF bytes > MaxArenaBytes
    THEN Only({ [m |-> r.m, tab |-> tab, ret |-> r.ret, big |-> TRUE,
                 arena_index |-> -1, bytes |-> bytes, arena |-> nullptr,
                 created |-> FALSE]
              : r \in {BigAlloc_alloc(m, bytes, os)} })
    ELSE Only({
           \* if(m_arenas[arena_index] == nullptr) m_arenas[arena_index] = create
           Only({
             \* result = m_arenas[arena_index]->alloc()
             Only({ [m |-> a.m,
                     tab |-> IF a.m.sig = "none" /\ a.ret = nullptr
                             THEN [tab EXCEPT ![c.arena_index] = nullptr]
                             ELSE [tab EXCEPT ![c.arena_index] = cr.ret],
                     ret |-> a.ret, big |-> FALSE,
                     arena_index |-> c.arena_index, bytes |-> c.bytes,
                     arena |-> cr.ret, created |-> tab[c.arena_index] = nullptr]
                  : a \in {IF cr.m.sig # "none"
                           THEN [m |-> cr.m, ret |-> nullptr]
                           ELSE Arena_alloc(cr.m, cr.ret)} })
             : cr \in {IF tab[c.arena_index] = nullptr
                       THEN Arena_create(m, c.bytes, os)
                       ELSE [m |-> m, ret |-> tab[c.arena_index]]} })
         : c \in {Classify(bytes)} })

\* ArenaStore::free.  Both the arenaSize test and the Arena overlay use the
\* pointer as it is passed; deallocated: MMapObject::dealloc was called.
ArenaStore_free(m, ptr) ==
    IF ~ObjMapped(m, ptr, {OffArenaSize})
    THEN [m |-> Raise(m, "SIGSEGV"), deallocated |-> FALSE]
    ELSE IF Load(m, ptr + OffArenaSize) = 0
    THEN [m |-> MMapObject_dealloc(m, ptr), deallocated |-> TRUE]
    ELSE Only({ IF f.m.sig = "none" /\ f.ret
                THEN [m |-> MMapObject_dealloc(f.m, ptr), deallocated |-> TRUE]
                ELSE [m |-> f.m, deallocated |-> FALSE]
              : f \in {Arena_free(m, ptr)} })

\* ------------------------------------------------------------------ facade
\* What a call leaves in the process state.
Commit(m) ==
    /\ mapped' = m.mapped
    /\ mem' = m.mem
    /\ s_outstandingPages' = m.cnt
    /\ regions' = m.regions
    /\ pc' = IF m.sig = "none" THEN "running" ELSE m.sig

NoCall == [op |-> "none", arg |-> 0, ret |-> nullptr, big |-> FALSE,
           arena_index |-> -1, bytes |-> 0, arena |-> nullptr,
           created |-> FALSE, osfail |-> FALSE, deallocated |-> FALSE]

\* Whether myMalloc(n) calls mmap in the current state, and with what size.
CallsMmap(n) ==
    n > MaxArenaBytes \/ m_arenas[Classify(n).arena_index] = nullptr

MapSize(n) == IF n > MaxArenaBytes THEN n ELSE pageSize

\* myMalloc(n): ArenaStore::alloc on the process-wide store.  os is the
\* placement the OS chooses if mmap is called.
myMalloc(n, os) ==
    \E r \in {ArenaStore_alloc(Machine, m_arenas, n, os)} :
        /\ Commit(r.m)
        /\ m_arenas' = r.tab
        /\ live' = IF r.m.sig = "none" /\ r.ret # nullptr
                   THEN live \cup {[ptr |-> r.ret, bytes |-> n,
                                    slot |-> IF r.big THEN 0 ELSE r.bytes,
                                    arena |-> r.arena]}
                   ELSE live
        /\ issued' = IF r.m.sig = "none" /\ r.ret # nullptr /\ ~r.big
                     THEN [a \in (DOMAIN issued) \cup {r.arena} |->
                             IF a = r.arena
                             THEN (IF a \in DOMAIN issued THEN issued[a] ELSE 0) + 1
                             ELSE issued[a]]
                     ELSE issued
        /\ last' = [op |-> "malloc", arg |-> n, ret |-> r.ret, big |-> r.big,
                    arena_index |-> r.arena_index, bytes |-> r.bytes,
                    arena |-> r.arena, created |-> r.created,
                    osfail |-> (CallsMmap(n) /\ os = 0), deallocated |-> FALSE]

\* myFree(addr): ArenaStore::free on the process-wide store.
myFree(addr) ==
    \E r \in {ArenaStore_free(Machine, addr)} :
        /\ Commit(r.m)
        /\ live' = {l \in live : l.ptr # addr}
        /\ last' = [NoCall EXCEPT !.op = "free", !.arg = addr,
                                  !.deallocated = r.deallocated]
        /\ UNCHANGED <<m_arenas, issued>>

\* ----------------------------------------------------------------- actions
Init ==
    /\ mapped = {}
    /\ mem = <<>>
    /\ s_outstandingPages = 0
    /\ m_arenas = [i \in 0..(NumArenas - 1) |-> nullptr]
    /\ pc = "running"
    /\ regions = {}
    /\ live = {}
    /\ issued = <<>>
    /\ last = NoCall
    /\ nCalls = 0

\* The caller allocates.
Malloc ==
    /\ pc = "running"
    /\ nCalls < MaxCalls
    /\ \E n \in ReqSizes :
         \E os \in (IF CallsMmap(n) THEN OsChoices(Machine, MapSize(n)) ELSE {0}) :
            myMalloc(n, os)
    /\ nCalls' = nCalls + 1

\* The caller frees one of its live allocations.
Free ==
    /\ pc = "running"
    /\ \E l \in live : myFree(l.ptr)
    /\ UNCHANGED nCalls

\* The caller frees the null pointer.
FreeNull ==
    /\ pc = "running"
    /\ myFree(nullptr)
    /\ UNCHANGED nCalls

\* The caller stores a word into one of its live allocations.
UserWrite ==
    /\ pc = "running"
    /\ nCalls < MaxCalls
    /\ \E l \in live : \E off \in UserOffsets : \E v \in UserVals :
         /\ off + 8 <= l.bytes
         /\ IF IsMapped(Machine, l.ptr + off)
            THEN Commit(Store(Machine, l.ptr + off, v))
            ELSE Commit(Raise(Machine, "SIGSEGV"))
         /\ last' = [NoCall EXCEPT !.op = "write", !.arg = l.ptr + off]
    /\ nCalls' = nCalls + 1
    /\ UNCHANGED <<m_arenas, live, issued>>

Next == Malloc \/ Free \/ FreeNull \/ UserWrite

Spec == Init /\ [][Next]_vars

\* ------------------------------------------- classification of every size
\* One myMalloc call of any size up to MaxBytes, after at most MaxPrefix
\* calls of the sizes above.
PrefixMalloc ==
    /\ nCalls < MaxPrefix
    /\ Malloc

AnyMalloc ==
    /\ pc = "running"
    /\ nCalls <= MaxPrefix
    /\ \E n \in 0..MaxBytes :
         \E os \in (IF CallsMmap(n) THEN OsChoices(Machine, MapSize(n)) ELSE {0}) :
            myMalloc(n, os)
    /\ nCalls' = MaxCalls

NextClassify == PrefixMalloc \/ AnyMalloc

SpecClassify == Init /\ [][NextClassify]_vars

\* ------------------------------------------------ MMapObject called directly
\* A caller of the public static MMapObject::alloc and MMapObject::dealloc
\* (the region layer on its own, as its tests drive it).
RegionAlloc ==
    /\ pc = "running"
    /\ nCalls < MaxCalls
    /\ \E size \in RegionSizes : \E as \in RegionItemSizes :
         \E os \in OsChoices(Machine, size) :
            \E r \in {MMapObject_alloc(Machine, size, as, os)} :
                /\ Commit(r.m)
                /\ last' = [NoCall EXCEPT !.op = "alloc", !.arg = size,
                                          !.ret = r.ret, !.bytes = as,
                                          !.osfail = (os = 0)]
    /\ nCalls' = nCalls + 1
    /\ UNCHANGED <<m_arenas, live, issued>>

RegionDealloc ==
    /\ pc = "running"
    /\ nCalls < MaxCalls
    /\ \E b \in 1..MaxPages : \E d \in RegionOffsets :
         /\ Commit(MMapObject_dealloc(Machine, b * pageSize + d))
         /\ last' = [NoCall EXCEPT !.op = "dealloc", !.arg = b * pageSize + d,
                                   !.deallocated = TRUE]
    /\ nCalls' = nCalls + 1
    /\ UNCHANGED <<m_arenas, live, issued>>

NextRegion == RegionAlloc \/ RegionDealloc

SpecRegion == Init /\ [][NextRegion]_vars

\* ----------------------------------------------------- Arena called directly
\* A caller of the public Arena::create, Arena::alloc and Arena::free, each
\* applied to an Arena that Arena::create returned.
ArenaCreate ==
    /\ pc = "running"
    /\ nCalls < MaxCalls
    /\ \E itemSize \in ArenaItemSizes : \E os \in OsChoices(Machine, pageSize) :
         \E r \in {Arena_create(Machine, itemSize, os)} :
            /\ Commit(r.m)
            /\ last' = [NoCall EXCEPT !.op = "Arena::create", !.arg = itemSize,
                                      !.ret = r.ret, !.arena = r.ret,
                                      !.bytes = itemSize, !.osfail = (os = 0)]
    /\ nCalls' = nCalls + 1
    /\ UNCHANGED <<m_arenas, live, issued>>

ArenaAlloc ==
    /\ pc = "running"
    /\ nCalls < MaxCalls
    /\ \E reg \in regions : \E r \in {Arena_alloc(Machine, reg.base)} :
         /\ Commit(r.m)
         /\ last' = [NoCall EXCEPT !.op = "Arena::alloc", !.arg = reg.base,
                                   !.ret = r.ret, !.arena = reg.base]
    /\ nCalls' = nCalls + 1
    /\ UNCHANGED <<m_arenas, live, issued>>

\* The bool that Arena::free returns is recorded as 1 or 0.
ArenaFree ==
    /\ pc = "running"
    /\ \E reg \in regions : \E r \in {Arena_free(Machine, reg.base)} :
         /\ Commit(r.m)
         /\ last' = [NoCall EXCEPT !.op = "Arena::free", !.arg = reg.base,
                                   !.ret = (IF r.ret THEN 1 ELSE 0),
                                   !.arena = reg.base]
    /\ UNCHANGED <<m_arenas, live, issued, nCalls>>

NextArena == ArenaCreate \/ ArenaAlloc \/ ArenaFree

SpecArena == Init /\ [][NextArena]_vars

\* ------------------------------------------------ filling an 8-byte arena
\* A caller that allocates MaxLead objects of 16 bytes and then objects of 8
\* bytes, and that frees, and stores into the first word of, those of its
\* live allocations that lie at the end of their arena: the slots p for which
\* the header overlay that ArenaStore::free puts on p reaches past the page of
\* the slot's arena.
EdgeLive == {l \in live : l.slot # 0 /\ l.ptr + SizeofArena > l.arena + pageSize}

FillMalloc ==
    /\ pc = "running"
    /\ nCalls < MaxFill
    /\ \E n \in {IF nCalls < MaxLead THEN 16 ELSE 8} :
         \E os \in (IF CallsMmap(n) THEN OsChoices(Machine, MapSize(n)) ELSE {0}) :
            myMalloc(n, os)
    /\ nCalls' = nCalls + 1

EdgeFree ==
    /\ pc = "running"
    /\ \E l \in EdgeLive : myFree(l.ptr)
    /\ UNCHANGED nCalls

EdgeWrite ==
    /\ pc = "running"
    /\ nCalls < MaxFill
    /\ \E l \in EdgeLive : \E v \in UserVals :
         /\ IF IsMapped(Machine, l.ptr)
            THEN Commit(Store(Machine, l.ptr, v))
            ELSE Commit(Raise(Machine, "SIGSEGV"))
         /\ last' = [NoCall EXCEPT !.op = "write", !.arg = l.ptr]
    /\ nCalls' = nCalls + 1
    /\ UNCHANGED <<m_arenas, live, issued>>

NextFill == FillMalloc \/ EdgeFree \/ EdgeWrite

SpecFill == Init /\ [][NextFill]_vars

\* ================================================================== claims
\* The size classes of the arenas (ArenaStore::m_arenas, indices 0..7).
Classes == {8, 16, 32, 64, 128, 256, 512, 1024}

SmallestClass(n) == CHOOSE c \in Classes : c >= n /\ \A d \in Classes : d >= n => c <= d

\* The header fields of the arena at a, as stored in mem_.
HeaderOf(mem_, a) ==
    [f \in {OffMmapSize, OffArenaSize, OffItemCount, OffSizeRemain, OffNext} |->
        IF a + f \in DOMAIN mem_ THEN mem_[a + f] ELSE 0]

\* C1: after successful allocate calls and a free of every returned pointer
\* exactly once, outstandingRegions() is back at its value before the
\* sequence (0 for a sequence that starts at process start), the process
\* still running.
C1_FreeAllRestoresBaseline ==
    (last.op = "free" /\ last.arg # nullptr /\ live = {})
        => (pc = "running" /\ outstandingPages = 0)

\* C2: an arena never issues more than floor((pageSize - headerSize) /
\* slotSize) slots, and every slot it issues lies inside the arena's page and
\* after its header.
C2_SlotsInsidePage ==
    (last.op = "malloc" /\ ~last.big /\ last.ret # nullptr)
        => /\ issued[last.arena] <= (pageSize - SizeofArena) \div last.bytes
           /\ last.arena + SizeofArena <= last.ret
           /\ last.ret + last.bytes <= last.arena + pageSize

\* C3: allocate never returns null for a request of at most 1024 bytes unless
\* the OS mapping fails; in particular the request that follows the
\* exhaustion of the class's arena is served from a new arena.
C3_NoNullWithoutMapFailure ==
    (last.op = "malloc" /\ last.arg <= MaxArenaBytes /\ ~last.osfail
        /\ pc = "running")
        => last.ret # nullptr

\* C4: every non-null pointer returned by allocate, from an arena of any
\* size class and slot index or from the large path, is a multiple of 8.
C4_PointersAligned ==
    /\ (last.op = "malloc" /\ last.ret # nullptr) => last.ret % 8 = 0
    /\ \A l \in live : l.ptr % 8 = 0

C6_LargeRegionSize ==
    (last.op = "malloc" /\ last.big /\ last.ret # nullptr) =>
        LET h == last.ret - SizeofBigAlloc
        IN  /\ h % pageSize = 0
            /\ HeaderOf(mem, h)[OffArenaSize] = 0
            /\ HeaderOf(mem, h)[OffMmapSize] = last.arg + SizeofBigAlloc
            /\ last.ret + last.arg <= h + HeaderOf(mem, h)[OffMmapSize]

\* C7: when the OS mapping fails, allocate returns null without aborting, and
\* the size-class table and the outstanding-region counter are as before the
\* call.
C7_MapFailureReturnsNull ==
    [][(last'.op = "malloc" /\ last'.osfail) =>
         /\ pc' = "running"
         /\ last'.ret = nullptr
         /\ m_arenas' = m_arenas
         /\ s_outstandingPages' = s_outstandingPages
      ]_vars

\* C8: a release while the outstanding-region counter is 0 ends the process
\* (SIGTRAP); a process that was ended takes no further step, and the counter
\* of a running process is never below 0 (wrapped).
C8_ReleaseAtZeroAborts ==
    [][/\ pc = "running"
       /\ (last'.op = "dealloc" /\ s_outstandingPages = 0) => pc' = "SIGTRAP"
       /\ pc' = "running" => s_outstandingPages' >= 0
      ]_vars

\* C8 witness: a region was created and released, and a second release, at
\* counter 0, ended the process.
C8_Witness ==
    /\ pc = "SIGTRAP"
    /\ last.op = "dealloc"
    /\ s_outstandingPages = -1
    /\ regions = {}

\* C9: outstandingRegions() is the number of Regions mapped and not yet
\* unmapped; it goes up by one only on a successful Region creation and down
\* by one only on a Region release.
C9_CounterCountsRegions ==
    [][/\ s_outstandingPages' = Cardinality(regions')
       /\ s_outstandingPages' = s_outstandingPages + 1
             => Cardinality(regions') = Cardinality(regions) + 1
       /\ s_outstandingPages' = s_outstandingPages - 1
             => Cardinality(regions') = Cardinality(regions) - 1
      ]_vars

\* C10: free(nullptr) is a no-op: no Region is released, the process goes
\* on, and memory, the table and the counter are unchanged.
C10_FreeNullNoOp ==
    [][(last'.op = "free" /\ last'.arg = nullptr) =>
         /\ pc' = "running"
         /\ ~last'.deallocated
         /\ UNCHANGED <<mapped, mem, s_outstandingPages, m_arenas, regions>>
      ]_vars

\* C11: allocate(0) is served like a request of the smallest class: table
\* index 0, slot size 8, and the call returns, and leaves memory, the table
\* and the counter, exactly as allocate(8) in the same state with the same
\* answer of the OS would; so it is non-null whenever allocate(8) would be.
C11_ZeroLikeEight ==
    [][(last'.op = "malloc" /\ last'.arg = 0) =>
         /\ ~last'.big
         /\ last'.arena_index = 0
         /\ last'.bytes = 8
         /\ \E os \in OsChoices(Machine, pageSize) :
              \E r \in {ArenaStore_alloc(Machine, m_arenas, 8, os)} :
                 /\ last'.ret = r.ret
                 /\ last'.osfail = (CallsMmap(8) /\ os = 0)
                 /\ m_arenas' = r.tab
                 /\ mem' = r.m.mem
                 /\ mapped' = r.m.mapped
                 /\ s_outstandingPages' = r.m.cnt
      ]_vars

\* C11 witness: allocate(0) returned the second slot of the 8-byte arena that
\* an earlier allocate(8) created.
C11_Witness ==
    /\ last.op = "malloc" /\ last.arg = 0
    /\ ~last.created
    /\ last.arena = m_arenas[0]
    /\ last.ret = last.arena + SizeofArena + 16
    /\ Cardinality(live) = 2

\* The live slots of the arena at a.
LiveOf(a) == {l \in live : l.slot # 0 /\ l.arena = a}

\* C12: of an arena that has issued every slot it will issue (it is full),
\* the free of a slot that is not its last live one releases no Region and
\* leaves outstandingRegions() unchanged; the free of the last live slot
\* releases the arena's Region, and only that one.
C12_ReleaseOnLastFree ==
    [][(last'.op = "free" /\ last'.arg # nullptr) =>
         \A l \in live :
            (/\ l.ptr = last'.arg
             /\ l.slot # 0
             /\ IsMapped(Machine, l.arena)
             /\ Arena_full(Machine, l.arena)) =>
                /\ pc' = "running"
                /\ IF LiveOf(l.arena) # {l}
                   THEN /\ ~last'.deallocated
                        /\ regions' = regions
                        /\ s_outstandingPages' = s_outstandingPages
                   ELSE /\ regions' = {r \in regions : r.base # l.arena}
                        /\ s_outstandingPages' = s_outstandingPages - 1
      ]_vars

\* The start of the page of address a.
PageStart(a) == PageOf(a) * pageSize

\* C13: free(p) decides by, and Region destroy unmaps by, the header at the
\* start of p's page, not the bytes at p: the call has the effect that
\* ArenaStore::free has when handed that header address, and a Region that
\* is released is unmapped from the header address for header.totalBytes.
C13_FreeUsesPageHeader ==
    [][(last'.op = "free" /\ last'.arg # nullptr) =>
         \E r \in {ArenaStore_free(Machine, PageStart(last'.arg))} :
            /\ last'.deallocated = r.deallocated
            /\ pc' = (IF r.m.sig = "none" THEN "running" ELSE r.m.sig)
            /\ mapped' = r.m.mapped
            /\ mem' = r.m.mem
            /\ regions' = r.m.regions
            /\ s_outstandingPages' = r.m.cnt
            /\ (last'.deallocated /\ pc' = "running") =>
                  mapped' = mapped \ PagesOfRange(PageStart(last'.arg),
                                Load(Machine, PageStart(last'.arg) + OffMmapSize))
      ]_vars

\* C14: the k-th slot an arena issues is at dataStart + (k - 1) * slotSize,
\* dataStart being the address right after the arena header; the first
\* slot is at offset 0 of the data area.
C14_SlotAddress ==
    (last.op = "malloc" /\ ~last.big /\ last.ret # nullptr) =>
        last.ret = last.arena + SizeofArena
                      + (issued[last.arena] - 1) * last.bytes

\* C15: after an allocate call of a request of at most 1024 bytes returns,
\* the table entry of the requested class is null or an arena that is not
\* full.
C15_TableEntryNotFull ==
    (last.op = "malloc" /\ ~last.big /\ pc = "running") =>
        \/ m_arenas[last.arena_index] = nullptr
        \/ /\ ObjMapped(Machine, m_arenas[last.arena_index],
                        {OffArenaSize, OffSizeRemain})
           /\ ~Arena_full(Machine, m_arenas[last.arena_index])

\* C16: Arena release takes liveCount down by one when it is positive and
\* leaves it at 0 otherwise, so the liveCount of every arena is >= 0 in every
\* state; it returns true exactly when, after that, liveCount is 0 and
\* bytesRemaining < slotSize.
C16_ReleaseContract ==
    [][/\ \A reg \in regions' : HeaderOf(mem', reg.base)[OffItemCount] >= 0
       /\ last'.op = "Arena::free" =>
            /\ pc' = "running"
            /\ HeaderOf(mem', last'.arena)[OffItemCount] =
                  (IF HeaderOf(mem, last'.arena)[OffItemCount] > 0
                   THEN HeaderOf(mem, last'.arena)[OffItemCount] - 1
                   ELSE 0)
            /\ \A f \in {OffMmapSize, OffArenaSize, OffSizeRemain, OffNext} :
                  HeaderOf(mem', last'.arena)[f] = HeaderOf(mem, last'.arena)[f]
            /\ last'.ret \in {0, 1}
            /\ (last'.ret = 1) <=>
                  /\ HeaderOf(mem', last'.arena)[OffItemCount] = 0
                  /\ HeaderOf(mem', last'.arena)[OffSizeRemain]
                        < HeaderOf(mem', last'.arena)[OffArenaSize]
      ]_vars

\* C16 witness: release returned true for an arena of 1024-byte slots: four
\* slots were issued and the release of the last live one took liveCount to 0.
C16_Witness ==
    /\ last.op = "Arena::free" /\ last.ret = 1
    /\ HeaderOf(mem, last.arena)[OffArenaSize] = 1024
    /\ HeaderOf(mem, last.arena)[OffSizeRemain] = 0
    /\ HeaderOf(mem, last.arena)[OffItemCount] = 0

\* C17: an allocate or free call changes the totalBytes and slotSize header
\* fields of no Region that is mapped before the call and still mapped
\* after it.
C17_HeaderSizesImmutable ==
    [][(last'.op \in {"malloc", "free"}) =>
         \A reg \in regions \cap regions' :
            /\ HeaderOf(mem', reg.base)[OffMmapSize]
                  = HeaderOf(mem, reg.base)[OffMmapSize]
            /\ HeaderOf(mem', reg.base)[OffArenaSize]
                  = HeaderOf(mem, reg.base)[OffArenaSize]
      ]_vars

\* C18: every non-null entry of the size-class table is an arena whose
\* Region is mapped: no free leaves in the table an arena it unmapped, for a
\* later allocate to read or bump.
C18_NoDanglingTableEntry ==
    \A i \in 0..(NumArenas - 1) :
        m_arenas[i] # nullptr =>
            \E reg \in regions : reg.base = m_arenas[i]

\* The bytes of a live allocation: slotSize bytes of an arena slot, the
\* requested bytes of a large allocation; and the size of the header of the
\* Region at base.
BytesOf(l) == IF l.slot # 0 THEN l.slot ELSE l.bytes

HeaderSizeAt(base) ==
    IF Load(Machine, base + OffArenaSize) = 0 THEN SizeofBigAlloc ELSE SizeofArena

Overlap(a, n, b, k) == a < b + k /\ b < a + n

\* C19: the byte ranges of two distinct live allocations are disjoint, and
\* no live allocation overlaps the header of a mapped Region.
C19_LiveRangesDisjoint ==
    pc = "running" =>
        /\ \A l1 \in live : \A l2 \in live :
              l1.ptr # l2.ptr =>
                 ~Overlap(l1.ptr, BytesOf(l1), l2.ptr, BytesOf(l2))
        /\ \A l \in live : \A reg \in regions :
              ~Overlap(l.ptr, BytesOf(l), reg.base, HeaderSizeAt(reg.base))

\* The slot size of the class that the call recorded in last' concerned, 0
\* for the large path: of an allocate, the class it chose; of a free, the
\* class of the live allocation that was freed.
ClassOfCall ==
    IF last'.op = "malloc"
    THEN {IF last'.big THEN 0 ELSE last'.bytes}
    ELSE {l.slot : l \in {k \in live : k.ptr = last'.arg}}

\* C20: an allocate or free call that concerns class i changes no table
\* entry of another class and not the liveCount, bytesRemaining or cursor of
\* an arena of another class; a large-path call changes no table entry and
\* no arena.
C20_OtherClassesUntouched ==
    [][(last'.op \in {"malloc", "free"}) =>
         \A c \in ClassOfCall :
            /\ \A j \in 0..(NumArenas - 1) :
                  2 ^ (j + 3) # c => m_arenas'[j] = m_arenas[j]
            /\ \A reg \in regions :
                  (/\ HeaderOf(mem, reg.base)[OffArenaSize] # 0
                   /\ HeaderOf(mem, reg.base)[OffArenaSize] # c) =>
                      \A f \in {OffItemCount, OffSizeRemain, OffNext} :
                         HeaderOf(mem', reg.base)[f] = HeaderOf(mem, reg.base)[f]
      ]_vars

====
